---- MODULE Spec2Model ----
(***************************************************************************)
(* Model of TestConfigManager (src/testConfigManager.ts): the resolution   *)
(* of the run configuration for a set of test items.                       *)
(*                                                                         *)
(* One call of loadRunConfig is modelled as a process whose position `pc`  *)
(* advances from one suspension point (await) to the next.  The external   *)
(* collaborators (workspace folder lookup, settings, file system, quick    *)
(* pick) answer nondeterministically at the moment the code consults them. *)
(*                                                                         *)
(* JavaScript values are encoded with one uniform shape per type:          *)
(*   - an absent string property (undefined) is the string Undefined;      *)
(*   - an object that may be undefined carries a `defined` flag;           *)
(*   - an IExecutionConfig is [name, ref] where ref is the identity of the *)
(*     object (where it was loaded from and at which index).               *)
(***************************************************************************)
EXTENDS Integers, Sequences, FiniteSets, TLC

VARIABLES
    pc,                 \* position of the call: the await it is suspended on
    isDebug,            \* parameter of loadRunConfig
    usingDefaultConfig, \* parameter of loadRunConfig
    workspaceFolder,    \* "unknown" | "resolved" | "undefined"
    configs,            \* result of getConfiguration('java.test').get('config')
    deprecatedConfig,   \* result of reading and parsing launch.test.json
    deprecatedConfigs,  \* the groups handed to selectDeprecatedConfig
    choices,            \* the quick pick entries built by selectQuickPick
    result,             \* how the promise of loadRunConfig settled
    warnings,           \* the window.showWarningMessage calls, in order
    trace,              \* the collaborator calls, in order
    promptEnd           \* how the quick pick ended: "" | "picked" | "dismissed" | "cancelled"

vars == <<pc, isDebug, usingDefaultConfig, workspaceFolder, configs, deprecatedConfig,
          deprecatedConfigs, choices, result, warnings, trace, promptEnd>>

\* Longest list of configurations (settings list, items of a legacy group).
MaxLen == 2

-----------------------------------------------------------------------------
(* Values *)

\* The string standing for an absent (undefined) string property.
Undefined == "<undefined>"

\* item.name of IExecutionConfig: two names, or absent.
ItemNames == {"X", "Y", Undefined}

\* IExecutionConfigGroup.default: a name, the empty string, or absent.
DefaultNames == {"X", "", Undefined}

\* JavaScript truthiness of an optional string.
Truthy(s) == s # Undefined /\ s # ""

NoRef == [src |-> "none", idx |-> 0]

\* The value `undefined` where an IExecutionConfig is expected.
NoConfig == [name |-> Undefined, ref |-> NoRef]

\* The sequences over S of length 0..n.
SeqsUpTo(S, n) == UNION {[1..k -> S] : k \in 0..n}

\* The configuration objects loaded from `src` with the given names.
MkItems(src, names) ==
    [i \in 1..Len(names) |-> [name |-> names[i], ref |-> [src |-> src, idx |-> i]]]

\* The value `undefined` where an IExecutionConfigGroup is expected.
UndefinedGroup == [defined |-> FALSE, hasItems |-> FALSE, items |-> <<>>, default |-> Undefined]

\* The values a group of the legacy document can have after JSON.parse.
Groups(src) ==
    {UndefinedGroup}
    \cup {[defined |-> TRUE, hasItems |-> FALSE, items |-> <<>>, default |-> d] :
             d \in DefaultNames}
    \cup {[defined |-> TRUE, hasItems |-> TRUE, items |-> MkItems(src, ns), default |-> d] :
             ns \in SeqsUpTo(ItemNames, MaxLen), d \in DefaultNames}

\* What `await fse.readFile` followed by JSON.parse can produce.
NoDocument == [state |-> "none", run |-> UndefinedGroup, debug |-> UndefinedGroup]

Documents ==
    {[state |-> s, run |-> UndefinedGroup, debug |-> UndefinedGroup] :
         s \in {"readError", "syntaxError", "null"}}
    \cup {[state |-> "object", run |-> r, debug |-> d] :
             r \in Groups("run"), d \in Groups("debug")}

\* What workspace.getConfiguration(...).get('config') can return.
NoSettings == [defined |-> FALSE, list |-> <<>>]

SettingsValues ==
    {NoSettings}
    \cup {[defined |-> TRUE, list |-> MkItems("settings", ns)] :
             ns \in SeqsUpTo(ItemNames, MaxLen)}

\* Settled states of the promise returned by loadRunConfig.
Pending == [kind |-> "pending", item |-> NoConfig, error |-> ""]
ReturnNone == [kind |-> "none", item |-> NoConfig, error |-> ""]
ReturnConfig(c) == [kind |-> "config", item |-> c, error |-> ""]
Throw(e) == [kind |-> "error", item |-> NoConfig, error |-> e]


\* A window.showWarningMessage call: which message, and the name it mentions.
Warn(kind, name) == [kind |-> kind, name |-> name]

\* How the synchronous part of a selection routine ends: the promise settles
\* (kind "settled") or the routine hands `pick` to selectQuickPick (kind "prompt").
Settled(res, warns) == [kind |-> "settled", result |-> res, warnings |-> warns, pick |-> <<>>]
Prompt(items, warns) == [kind |-> "prompt", result |-> Pending, warnings |-> warns, pick |-> items]

-----------------------------------------------------------------------------
(* selectQuickPick *)

\* The label of entry i: the name if truthy, else `Configuration #${i + 1}`
\* (i is 1-based here, 0-based in the source).
Label(config, i) ==
    IF Truthy(config.name)
    THEN [fallback |-> FALSE, text |-> config.name, number |-> 0]
    ELSE [fallback |-> TRUE, text |-> "Configuration #", number |-> i]

\* The entries handed to window.showQuickPick, one per configuration, in order.
\* (The detail string, JSON.stringify of the item, is display only and left out.)
BuildChoices(list) ==
    [i \in 1..Len(list) |-> [label |-> Label(list[i], i), item |-> list[i]]]

SelectionUndefinedReturnsNone == [result |-> ReturnNone, warnings |-> <<>>]

SelectionUndefinedWarns ==
    [result |-> Throw("NoConfigSpecified"), warnings |-> <<Warn("multiRoot", "")>>]

\* `if (!selection) throw new Error('Please specify the test config to use.')`
SelectionUndefined == [result |-> Throw("NoConfigSpecified"), warnings |-> <<>>]

-----------------------------------------------------------------------------
(* selectDeprecatedConfig *)

\* runConfig.items.filter(item => item.name === runConfig.default)
Candidates(group) == SelectSeq(group.items, LAMBDA item : item.name = group.default)

LastCandidate(candidates) == candidates[Len(candidates)]

\* `return candidates[0]`
FirstCandidate(candidates) == candidates[1]

NotFoundSilent(group) == Settled(ReturnNone, <<>>)

\* candidates.length === 0: warn and return undefined.
NotFound(group) == Settled(ReturnNone, <<Warn("notFound", group.default)>>)

\* The usingDefaultConfig branch.  Reading a property of an undefined group, or
\* calling filter on undefined items, throws a TypeError.
DefaultResolution(groups) ==
    IF Len(groups) # 1 THEN Settled(ReturnNone, <<>>)
    ELSE IF ~groups[1].defined THEN Settled(Throw("TypeError"), <<>>)
    ELSE IF ~Truthy(groups[1].default) THEN Settled(ReturnNone, <<>>)
    ELSE IF ~groups[1].hasItems THEN Settled(Throw("TypeError"), <<>>)
    ELSE LET runConfig == groups[1]
             candidates == Candidates(runConfig)
         IN  IF Len(candidates) = 0 THEN NotFound(runConfig)
             ELSE Settled(ReturnConfig(FirstCandidate(candidates)),
                          IF Len(candidates) > 1
                          THEN <<Warn("duplicate", runConfig.default)>>
                          ELSE <<>>)

\* The loop `for (const config of configs) configItems.push(...config.items)`.
\* config undefined: TypeError.  config.items undefined: the spread throws a
\* TypeError when compiled for ES2015 and later, and pushes nothing when it is
\* compiled to push.apply for ES5; spreadThrows says which build this is.
RECURSIVE Flatten(_, _)
Flatten(groups, spreadThrows) ==
    IF Len(groups) = 0 THEN [ok |-> TRUE, items |-> <<>>]
    ELSE LET config == Head(groups)
             rest == Flatten(Tail(groups), spreadThrows)
         IN  IF ~config.defined THEN [ok |-> FALSE, items |-> <<>>]
             ELSE IF ~config.hasItems /\ spreadThrows THEN [ok |-> FALSE, items |-> <<>>]
             ELSE [ok |-> rest.ok, items |-> config.items \o rest.items]

\* The branch without usingDefaultConfig.
InteractiveResolution(groups, spreadThrows) ==
    LET warns == IF Len(groups) > 1 THEN <<Warn("multiRoot", "")>> ELSE <<>>
        flat == Flatten(groups, spreadThrows)
    IN  IF flat.ok THEN Prompt(flat.items, warns)
        ELSE Settled(Throw("TypeError"), warns)

SelectDeprecatedConfigAlwaysPrompts(groups, usingDefault, spreadThrows) ==
    IF Len(groups) = 0 THEN Settled(ReturnNone, <<>>)
    ELSE IF usingDefault /\ groups[1].defined /\ Truthy(groups[1].default)
         THEN DefaultResolution(groups)
         ELSE InteractiveResolution(groups, spreadThrows)

SelectDeprecatedConfig(groups, usingDefault, spreadThrows) ==
    IF Len(groups) = 0 THEN Settled(ReturnNone, <<>>)
    ELSE IF usingDefault THEN DefaultResolution(groups)
    ELSE InteractiveResolution(groups, spreadThrows)

-----------------------------------------------------------------------------
(* loadRunConfig *)

UseNewSchemaWhenSeveral(settings) == settings.defined /\ Len(settings.list) > 1

\* `if (configs && configs.length > 0)`
UseNewSchema(settings) == settings.defined /\ Len(settings.list) > 0

NewSchemaLast(list) == list[Len(list)]

\* `return configs[0]`
NewSchemaDefault(list) == list[1]

SelectGroupSwapped(doc, debug) == IF debug THEN doc.run ELSE doc.debug

\* `isDebug ? deprecatedConfig.debug : deprecatedConfig.run`
SelectGroup(doc, debug) == IF debug THEN doc.debug ELSE doc.run

Init ==
    /\ pc = "loadRunConfig"
    /\ isDebug \in BOOLEAN
    /\ usingDefaultConfig \in BOOLEAN
    /\ workspaceFolder = "unknown"
    /\ configs = NoSettings
    /\ deprecatedConfig = NoDocument
    /\ deprecatedConfigs = <<>>
    /\ choices = <<>>
    /\ result = Pending
    /\ warnings = <<>>
    /\ trace = <<>>
    /\ promptEnd = ""

\* The promise settles with res.
Settle(res) ==
    /\ result' = res
    /\ pc' = "done"

\* selectQuickPick up to `await window.showQuickPick(choices, ...)`.
ShowQuickPick(list, calls) ==
    /\ choices' = BuildChoices(list)
    /\ trace' = trace \o calls \o <<"showQuickPick">>
    /\ pc' = "showQuickPick"
    /\ result' = result

\* loadRunConfig from its call to its first await (or to its return).
LoadRunConfig ==
    /\ pc = "loadRunConfig"
    /\ \/ /\ workspaceFolder' = "undefined"
          /\ trace' = trace \o <<"getWorkspaceFolder">>
          /\ Settle(ReturnNone)
          /\ UNCHANGED <<configs, choices>>
       \/ \E settings \in SettingsValues :
             /\ workspaceFolder' = "resolved"
             /\ configs' = settings
             /\ IF UseNewSchema(settings)
                THEN IF usingDefaultConfig
                     THEN /\ Settle(ReturnConfig(NewSchemaDefault(settings.list)))
                          /\ trace' = trace \o <<"getWorkspaceFolder", "getConfiguration">>
                          /\ UNCHANGED choices
                     ELSE ShowQuickPick(settings.list,
                                        <<"getWorkspaceFolder", "getConfiguration">>)
                ELSE /\ trace' = trace \o <<"getWorkspaceFolder", "getConfiguration",
                                            "pathExists">>
                     /\ pc' = "pathExists"
                     /\ UNCHANGED <<result, choices>>
    /\ UNCHANGED <<isDebug, usingDefaultConfig, deprecatedConfig, deprecatedConfigs,
                   warnings, promptEnd>>

\* `await fse.pathExists(configFullPath)` resolves.
PathExists ==
    /\ pc = "pathExists"
    /\ \E exists \in BOOLEAN :
          IF ~exists
          THEN Settle(ReturnNone) /\ UNCHANGED trace
          ELSE /\ trace' = trace \o <<"readFile">>
               /\ pc' = "readFile"
               /\ UNCHANGED result
    /\ UNCHANGED <<isDebug, usingDefaultConfig, workspaceFolder, configs, deprecatedConfig,
                   deprecatedConfigs, choices, warnings, promptEnd>>

\* `await fse.readFile(...)` settles; then JSON.parse, the choice of the group and
\* selectDeprecatedConfig, up to the quick pick (or to the return).
ReadFile ==
    /\ pc = "readFile"
    /\ \E doc \in Documents, spreadThrows \in BOOLEAN :
          /\ deprecatedConfig' = doc
          /\ IF doc.state = "readError"
             THEN Settle(Throw("ReadError"))
                  /\ UNCHANGED <<deprecatedConfigs, choices, warnings, trace>>
             ELSE IF doc.state = "syntaxError"
             THEN Settle(Throw("SyntaxError"))
                  /\ UNCHANGED <<deprecatedConfigs, choices, warnings, trace>>
             ELSE IF doc.state = "null"
             THEN Settle(Throw("TypeError"))
                  /\ UNCHANGED <<deprecatedConfigs, choices, warnings, trace>>
             ELSE LET groups == <<SelectGroup(doc, isDebug)>>
                      out == SelectDeprecatedConfig(groups, usingDefaultConfig, spreadThrows)
                  IN  /\ deprecatedConfigs' = groups
                      /\ warnings' = warnings \o out.warnings
                      /\ IF out.kind = "prompt"
                         THEN ShowQuickPick(out.pick, <<>>)
                         ELSE Settle(out.result) /\ UNCHANGED <<choices, trace>>
    /\ UNCHANGED <<isDebug, usingDefaultConfig, workspaceFolder, configs, promptEnd>>

\* The quick pick resolves with the entry the user chose.
QuickPickSelected ==
    /\ pc = "showQuickPick"
    /\ \E i \in 1..Len(choices) : Settle(ReturnConfig(choices[i].item))
    /\ promptEnd' = "picked"
    /\ UNCHANGED <<isDebug, usingDefaultConfig, workspaceFolder, configs, deprecatedConfig,
                   deprecatedConfigs, choices, warnings, trace>>

\* The quick pick resolves with undefined; `how` says who closed it.
QuickPickUndefined(how) ==
    /\ pc = "showQuickPick"
    /\ Settle(SelectionUndefined.result)
    /\ warnings' = warnings \o SelectionUndefined.warnings
    /\ promptEnd' = how
    /\ UNCHANGED <<isDebug, usingDefaultConfig, workspaceFolder, configs, deprecatedConfig,
                   deprecatedConfigs, choices, trace>>

\* The user dismisses the quick pick without choosing.
QuickPickDismissed == QuickPickUndefined("dismissed")

\* The host closes the quick pick while the call is suspended on it.
QuickPickCancelled == QuickPickUndefined("cancelled")

Next ==
    \/ LoadRunConfig
    \/ PathExists
    \/ ReadFile
    \/ QuickPickSelected
    \/ QuickPickDismissed
    \/ QuickPickCancelled

Spec == Init /\ [][Next]_vars

-----------------------------------------------------------------------------
(* Properties *)

Done == pc = "done"

Called(call) == \E i \in 1..Len(trace) : trace[i] = call

\* The call went down the new-schema path / the legacy path.
NonEmptyList == configs.defined /\ Len(configs.list) > 0
OnLegacyPath == Called("getConfiguration") /\ ~NonEmptyList

\* The legacy document was read and parsed into an object.
Parsed == deprecatedConfig.state = "object"

\* The group of the parsed document that belongs to the mode of the call.
ModeGroup == IF isDebug THEN deprecatedConfig.debug ELSE deprecatedConfig.run
ModeSrc == IF isDebug THEN "debug" ELSE "run"

\* The indices of the items of group g whose name equals its default.
Matches(g) == {i \in 1..Len(g.items) : g.items[i].name = g.default}

\* A call in default mode that handed one well-formed group with a non-empty
\* default name to legacy resolution.
DefaultLookup ==
    /\ Done /\ Parsed /\ usingDefaultConfig
    /\ Len(deprecatedConfigs) = 1
    /\ deprecatedConfigs[1].defined /\ deprecatedConfigs[1].hasItems
    /\ Truthy(deprecatedConfigs[1].default)

\* C1: with usingDefaultConfig, a resolved folder and a non-empty settings list,
\* the call returns the first element of the list, whatever the mode and whatever
\* the names in the list.
C1_FirstOfNewSchema ==
    (Called("getConfiguration") /\ usingDefaultConfig /\ NonEmptyList)
        => /\ Done
           /\ result = ReturnConfig(configs.list[1])
           /\ result.item.ref = [src |-> "settings", idx |-> 1]

\* The default was taken from a list of two whose first element has no name and
\* whose second is named.
C1_Witness ==
    /\ Done /\ usingDefaultConfig /\ NonEmptyList
    /\ Len(configs.list) = 2
    /\ configs.list[1].name = Undefined
    /\ configs.list[2].name = "X"
    /\ result.kind = "config"

\* C2: a prompt the user dismissed ends the call with the 'no configuration
\* specified' error, never with "none" and never with a configuration.
C2_DismissIsFatal ==
    promptEnd = "dismissed"
        => /\ Done
           /\ Called("showQuickPick")
           /\ result = Throw("NoConfigSpecified")

\* A prompt of the legacy path, with entries to choose from, was dismissed.
C2_Witness ==
    /\ promptEnd = "dismissed" /\ Parsed /\ Len(choices) > 0
    /\ result.kind = "error"

\* C3 as stated: default mode never prompts and always ends in a configuration
\* or in "none".
C3_DefaultResolvesOrNone ==
    usingDefaultConfig
        => /\ ~Called("showQuickPick")
           /\ pc # "showQuickPick"
           /\ Done => result.kind \in {"config", "none"}

\* C3 amended: default mode never prompts; the call ends in a configuration, in
\* "none", or in an error raised while loading the legacy document (unreadable
\* file, parse failure, or a parsed document without the group or its items).
C3_DefaultNeverPrompts ==
    usingDefaultConfig
        => /\ ~Called("showQuickPick")
           /\ pc # "showQuickPick"
           /\ promptEnd = ""
           /\ Done => \/ result.kind \in {"config", "none"}
                      \/ /\ result.kind = "error"
                         /\ Called("readFile")
                         /\ result.error \in {"ReadError", "SyntaxError", "TypeError"}

\* Default mode resolved on the legacy path, for a group without a default name,
\* without a prompt.
C3_Witness ==
    /\ Done /\ usingDefaultConfig /\ Parsed
    /\ ModeGroup.defined /\ ~Truthy(ModeGroup.default) /\ Len(ModeGroup.items) > 0
    /\ result.kind = "none"

\* The position of the first occurrence of a call in the trace.
FirstCall(call) == CHOOSE i \in 1..Len(trace) : trace[i] = call /\ \A j \in 1..(i - 1) : trace[j] # call

\* C4: after the settings were read, a non-empty list means the legacy store is
\* never consulted and no result comes from the legacy document; an absent or
\* empty list means the existence check is made, and made before any read.
C4_SchemaPrecedence ==
    Called("getConfiguration")
        => IF NonEmptyList
           THEN /\ ~Called("pathExists") /\ ~Called("readFile")
                /\ pc \notin {"pathExists", "readFile"}
                /\ deprecatedConfig = NoDocument
                /\ deprecatedConfigs = <<>>
                /\ result.kind = "config" => result.item.ref.src = "settings"
                /\ \A i \in 1..Len(choices) : choices[i].item.ref.src = "settings"
           ELSE /\ Called("pathExists")
                /\ Called("readFile") => FirstCall("pathExists") < FirstCall("readFile")
                /\ deprecatedConfig # NoDocument => Called("readFile")
                /\ result.kind = "config" => result.item.ref.src # "settings"
                /\ \A i \in 1..Len(choices) : choices[i].item.ref.src # "settings"

\* Both paths of the precedence were taken to their end: here the legacy path,
\* with an empty (but present) settings list, returned a legacy item.
C4_Witness ==
    /\ Done /\ configs.defined /\ configs.list = <<>>
    /\ Called("readFile")
    /\ result.kind = "config"

\* C5: in default mode, several items named like the default: the first of them
\* in item order is returned, with the duplicate warning as the only warning and
\* no prompt.
C5_DuplicateDefault ==
    (DefaultLookup /\ Cardinality(Matches(deprecatedConfigs[1])) > 1)
        => LET g == deprecatedConfigs[1]
               first == CHOOSE i \in Matches(g) : \A j \in Matches(g) : i <= j
           IN  /\ result = ReturnConfig(g.items[first])
               /\ warnings = <<Warn("duplicate", g.default)>>
               /\ ~Called("showQuickPick")

C5_Witness ==
    /\ DefaultLookup /\ Cardinality(Matches(deprecatedConfigs[1])) > 1
    /\ result.kind = "config"

\* C6: in default mode, no item named like the default: the call returns "none"
\* with the not-found warning as the only warning, and no prompt.
C6_NoMatch ==
    (DefaultLookup /\ Matches(deprecatedConfigs[1]) = {})
        => /\ result = ReturnNone
           /\ warnings = <<Warn("notFound", deprecatedConfigs[1].default)>>
           /\ ~Called("showQuickPick")

\* The lookup failed in a group that has items, none of them named like the default.
C6_Witness ==
    /\ DefaultLookup /\ Matches(deprecatedConfigs[1]) = {}
    /\ Len(deprecatedConfigs[1].items) > 0
    /\ result.kind = "none"

\* C7: on the legacy path exactly one group is passed on, the one of the mode;
\* what is offered, matched, named in a warning or returned belongs to it.
C7_ModeSelectsGroup ==
    Parsed
        => /\ deprecatedConfigs = <<ModeGroup>>
           /\ \A i \in 1..Len(choices) :
                 /\ choices[i].item.ref.src = ModeSrc
                 /\ choices[i].item = ModeGroup.items[choices[i].item.ref.idx]
           /\ result.kind = "config"
                 => /\ result.item.ref.src = ModeSrc
                    /\ \E i \in 1..Len(ModeGroup.items) : ModeGroup.items[i] = result.item
                    /\ usingDefaultConfig => result.item.name = ModeGroup.default
           /\ \A i \in 1..Len(warnings) :
                 warnings[i].kind # "multiRoot" => warnings[i].name = ModeGroup.default

\* A debug call returned a debug item of a document whose run group has items
\* too, and another default name.
C7_Witness ==
    /\ Done /\ Parsed /\ isDebug
    /\ result.kind = "config"
    /\ Len(deprecatedConfig.run.items) > 0
    /\ deprecatedConfig.run.default # deprecatedConfig.debug.default

C9_PromptNeverEmpty ==
    (Called("showQuickPick") /\ (Parsed => ModeGroup.hasItems)) => Len(choices) > 0

\* C10 as stated, for a legacy file that parses: the call ends in a configuration
\* or in "none", or in the error of a dismissed prompt.
C10_ParsedNeverFatal ==
    (Done /\ Parsed /\ result.kind = "error")
        => /\ promptEnd # ""
           /\ result.error = "NoConfigSpecified"

====
